---- MODULE Spec2Model ----
(***************************************************************************)
(* Model of xija/gui_fit/app.py: the parameter table (PanelText,           *)
(* PanelParam, PanelSlider, ParamsPanel) and the fit monitoring loop of     *)
(* MainWindow (fit_monitor, the Fit and Stop buttons, the console fit()).   *)
(*                                                                          *)
(* Parameter values are floats in the program.  Here they are integers on   *)
(* a fixed-point grid: bounds are multiples of 100, so that the slider      *)
(* arithmetic  step * (parmax - parmin) / 100 + parmin  is exact.           *)
(***************************************************************************)
EXTENDS Integers, Sequences, FiniteSets, TLC

(* ----------------------------- bounds ---------------------------------- *)

\* Largest number of unread messages held by the worker's pipe.
MaxPipe == 2

\* Largest number of QTimer.singleShot timers the model lets be outstanding.
MaxTimers == 2

\* Largest number of mask intervals the model lets be appended.
MaxMask == 2

\* Largest bound, in units of 100 grid points, of the sliders whose mapping is
\* tried value by value.
MaxUnits == 2

(* ------------------------ the model's parameters ------------------------ *)

\* model.pars: the canonical, ordered parameter list, fixed at load time.
ParNames == << <<"f", "o", "o", ".", "b", "a", "r">>,
              <<"q", "u", "x", ".", "b", "a", "r">> >>

NPars == Len(ParNames)

Pars == 1..NPars

\* PanelSlider.setMinimum(0)
SliderMin == 0

\* PanelSlider.setMaximum(100), and the 100.0 of set_dx
SliderMax == 100

\* The values a parameter has when the model is loaded: min < val < max.
InitPar == [val |-> 100, min |-> 0, max |-> 200]

\* Inputs typed into (or assigned to) the 'val' field.
ValInputs == {-50, 50, 250}

\* Inputs typed into (or assigned to) the 'min' and 'max' fields.
BoundInputs == {0, 100}

\* Positions the user drags a slider to.
StepInputs == {0, 100}

\* The rows of the parameter table whose widgets the user operates; the fit
\* writes every row.
EditRows == {1}

Attrs == {"val", "min", "max"}

(* --------------------------- pure helpers ------------------------------ *)

Abs(x) == IF x < 0 THEN -x ELSE x

\* Python's int() of the float quotient a / b: truncation toward zero.
IntTrunc(a, b) ==
    IF (a >= 0) = (b > 0)
      THEN Abs(a) \div Abs(b)
      ELSE -(Abs(a) \div Abs(b))

\* QAbstractSlider.setValue bounds the value to [minimum, maximum].
QBound(step) ==
    IF step < SliderMin THEN SliderMin
    ELSE IF step > SliderMax THEN SliderMax
    ELSE step

(* ------------------------------ state ---------------------------------- *)

VARIABLES
    par,       \* par[i]: the model parameter i: [val, min, max]
    slider,    \* slider[i]: PanelSlider i: [parmin, parmax, parval, dxden, step]
    worker,    \* FitWorker's process: "idle", "running" or "exited"
    stopReq,   \* fit_worker.terminate was asked of a running worker
    pipe,      \* fit_worker.parent_pipe: the messages sent and not yet received
    timers,    \* number of outstanding QTimer.singleShot(200, fit_monitor)
    joined,    \* fit_worker.fit_process.join() has returned
    frozen,    \* frozen[i]: par.frozen of the model parameter i
    checked,   \* checked[i]: the check box of row i is checked
    mask,      \* the model's mask intervals, in the order they were appended
    text,      \* text[i]: the numbers the val, min and max fields of row i show
    lastOp     \* history: the handler that ran last, its inputs and what it did

vars == <<par, slider, worker, stopReq, pipe, timers, joined, frozen, checked,
          mask, text, lastOp>>

fitVars == <<worker, stopReq, pipe, timers, joined>>

cmdVars == <<frozen, checked, mask>>

\* The history record of a handler; the fields a handler does not use keep
\* these values.  i, attr, v: the row, the field and the number written; old:
\* par.val before a write of min or max; recv, applied, joined, armed: what a call of
\* fit_monitor received, wrote to model.parvals, whether it joined the worker
\* and armed a timer; launched: the worker was launched; raised: the
\* exception that ended the handler; vals: the tokens of a command line;
\* rejected: the command was refused with a printed error; redraw: the command
\* called update_plots(redraw=True); back: the value read back from the slider.
NoOp ==
    [op |-> "init", i |-> 0, attr |-> "", v |-> 0, old |-> 0, raised |-> "",
     recv |-> <<>>, applied |-> <<>>, joined |-> FALSE, armed |-> FALSE,
     launched |-> FALSE, vals |-> <<>>, rejected |-> FALSE, redraw |-> FALSE,
     back |-> 0]

(* --------------------------- PanelSlider ------------------------------- *)

\* PanelSlider.set_dx: dx = 100.0/(parmax-parmin), idx = 1.0/dx.  The slider
\* keeps dx as its denominator dxden: dx = 100/dxden and idx = dxden/100.
\* The float division raises ZeroDivisionError when parmax = parmin, and dx
\* and idx then keep their old values.
SetDxRaises(s) == s.parmax - s.parmin = 0

set_dx(s) == [s EXCEPT !.dxden = s.parmax - s.parmin]

\* Mutant of set_step_from_value: parmin is not subtracted.
SetStepNoOffset(s, val) ==
    [s EXCEPT !.step = QBound(IntTrunc(val * SliderMax, s.dxden))]

\* PanelSlider.set_step_from_value: step = int((val-parmin)*dx); setValue(step)
set_step_from_value(s, val) ==
    [s EXCEPT !.step = QBound(IntTrunc((val - s.parmin) * SliderMax, s.dxden))]

\* PanelSlider.get_value_from_step: value()*idx + parmin
get_value_from_step(s) == (s.step * s.dxden) \div SliderMax + s.parmin

\* setattr(self, "par{}".format(attr), val) of update_slider_val
SetSliderAttr(s, val, attr) ==
    CASE attr = "val" -> [s EXCEPT !.parval = val]
      [] attr = "min" -> [s EXCEPT !.parmin = val]
      [] attr = "max" -> [s EXCEPT !.parmax = val]

\* PanelSlider.update_slider_val; when set_dx raises, the step is not set.
update_slider_val(s, val, attr) ==
    LET s1 == SetSliderAttr(s, val, attr)
    IN  IF attr \in {"min", "max"}
          THEN IF SetDxRaises(s1)
                 THEN s1
                 ELSE set_step_from_value(set_dx(s1), s1.parval)
          ELSE set_step_from_value(s1, s1.parval)

UpdateSliderRaises(s, val, attr) ==
    attr \in {"min", "max"} /\ SetDxRaises(SetSliderAttr(s, val, attr))

\* PanelSlider.__init__ for a parameter p
NewSlider(p) ==
    set_step_from_value(
        set_dx([parmin |-> p.min, parmax |-> p.max, parval |-> p.val,
                dxden |-> 1, step |-> 0]),
        p.val)

(* ---------------------------- PanelText -------------------------------- *)

\* Mutant of _bounds_check: the max check is lost.
BoundsCheckNoMax(p) ==
    IF p.val < p.min THEN [p EXCEPT !.val = p.min] ELSE p

\* Mutant of _bounds_check: the max check is an elif of the min check.
BoundsCheckElif(p) ==
    IF p.val < p.min THEN [p EXCEPT !.val = p.min]
    ELSE IF p.val > p.max THEN [p EXCEPT !.val = p.max]
    ELSE p

\* PanelText._bounds_check: two independent ifs, the min check first.
_bounds_check(p) ==
    LET p1 == IF p.val < p.min THEN [p EXCEPT !.val = p.min] ELSE p
    IN  IF p1.val > p1.max THEN [p1 EXCEPT !.val = p1.max] ELSE p1

\* The setText calls of _bounds_check, run by the field attr of a row whose
\* parameter is p and whose fields show t: the min check writes the val field,
\* the max check writes the field itself (self.setText) and the val field.
BoundsCheckText(p, t, attr) ==
    LET below == p.val < p.min
        p1    == IF below THEN [p EXCEPT !.val = p.min] ELSE p
        t1    == IF below THEN [t EXCEPT !.val = p.min] ELSE t
    IN  IF p1.val > p1.max
          THEN [[t1 EXCEPT ![attr] = p1.max] EXCEPT !.val = p1.max]
          ELSE t1

\* setattr(self.par, self.attr, val)
SetParAttr(p, attr, val) ==
    CASE attr = "val" -> [p EXCEPT !.val = val]
      [] attr = "min" -> [p EXCEPT !.min = val]
      [] attr = "max" -> [p EXCEPT !.max = val]

\* Mutant of set_par_attr: the bounds check runs on a write of val only.
SetParAttrCheckValOnly(i, attr, val, shown) ==
    /\ par' = [par EXCEPT ![i] =
                   IF attr = "val"
                     THEN BoundsCheckElif(SetParAttr(par[i], attr, val))
                     ELSE SetParAttr(par[i], attr, val)]
    /\ slider' = [slider EXCEPT ![i] = update_slider_val(slider[i], val, attr)]
    /\ lastOp' = [NoOp EXCEPT !.op = "set_par_attr", !.i = i, !.attr = attr,
                              !.v = val,
                              !.old = IF attr = "val" THEN 0 ELSE par[i].val,
                              !.raised =
                                  IF UpdateSliderRaises(slider[i], val, attr)
                                    THEN "ZeroDivisionError" ELSE ""]
    /\ text' = [text EXCEPT ![i] =
                   IF attr = "val"
                     THEN BoundsCheckText(SetParAttr(par[i], attr, val),
                                          [text[i] EXCEPT ![attr] = shown], attr)
                     ELSE [text[i] EXCEPT ![attr] = shown]]
    /\ UNCHANGED <<worker, stopReq, pipe, timers, joined>>
    /\ UNCHANGED cmdVars

\* PanelText.set_par_attr, reached from the text entry (par_attr_changed)
\* and from the console's params[name].val / .min / .max (PanelParam); shown
\* is the number the field shows when it is called: the number typed, or
\* what the field showed before a console assignment.
set_par_attr(i, attr, val, shown) ==
    /\ par' = [par EXCEPT ![i] = _bounds_check(SetParAttr(par[i], attr, val))]
    /\ slider' = [slider EXCEPT ![i] = update_slider_val(slider[i], val, attr)]
    /\ lastOp' = [NoOp EXCEPT !.op = "set_par_attr", !.i = i, !.attr = attr,
                              !.v = val,
                              !.old = IF attr = "val" THEN 0 ELSE par[i].val,
                              !.raised =
                                  IF UpdateSliderRaises(slider[i], val, attr)
                                    THEN "ZeroDivisionError" ELSE ""]
    /\ text' = [text EXCEPT ![i] =
                   BoundsCheckText(SetParAttr(par[i], attr, val),
                                   [text[i] EXCEPT ![attr] = shown], attr)]
    /\ UNCHANGED fitVars
    /\ UNCHANGED cmdVars

\* PanelSlider.slider_moved, the user having dragged slider i to position step
slider_moved(i, step) ==
    LET s == [slider[i] EXCEPT !.step = step]
    IN  /\ slider' = [slider EXCEPT ![i] = s]
        /\ par' = [par EXCEPT ![i].val = get_value_from_step(s)]
        /\ text' = [text EXCEPT ![i].val = get_value_from_step(s)]
        /\ lastOp' = [NoOp EXCEPT !.op = "slider_moved", !.i = i, !.v = step]
        /\ UNCHANGED fitVars
        /\ UNCHANGED cmdVars

(* ------------------------- the worker's messages ------------------------ *)

Terminal == {"terminated", "finished"}

\* The parameter vectors the worker reports (xija's model.parvals).
FitVectors == {<<50, 100>>, <<150, 200>>}

\* A non-terminal progress message of the worker.
RunningMsgs == {[status |-> "running", parvals |-> pv] : pv \in FitVectors}

\* A message that is not of the shape {status, parvals[NPars]}: a field is
\* missing, or parvals has the wrong length.
MalformedMsgs ==
    {[parvals |-> <<50, 100>>],
     [status |-> "running"],
     [status |-> "running", parvals |-> <<50>>],
     [status |-> "finished", parvals |-> <<50>>]}

HasStatus(msg) == "status" \in DOMAIN msg

HasParvals(msg) == "parvals" \in DOMAIN msg

(* ------------------------------ FitWorker ------------------------------- *)

\* FitWorker.start: launches the worker process; a worker that was started
\* before is not launched again.
CanLaunch == worker = "idle"

\* The worker process reports progress.
WorkerSend ==
    /\ worker = "running"
    /\ Len(pipe) < MaxPipe
    /\ \E msg \in RunningMsgs : pipe' = Append(pipe, msg)
    /\ lastOp' = [NoOp EXCEPT !.op = "worker_send"]
    /\ UNCHANGED <<par, slider, text, worker, stopReq, timers, joined>>
    /\ UNCHANGED cmdVars

\* The worker process sends its last message and exits: 'finished' when the
\* fit converged, 'terminated' when it was asked to stop.
WorkerExit ==
    /\ worker = "running"
    /\ Len(pipe) < MaxPipe
    /\ \E pv \in FitVectors :
       \E st \in (IF stopReq THEN Terminal ELSE {"finished"}) :
           pipe' = Append(pipe, [status |-> st, parvals |-> pv])
    /\ worker' = "exited"
    /\ lastOp' = [NoOp EXCEPT !.op = "worker_exit"]
    /\ UNCHANGED <<par, slider, text, stopReq, timers, joined>>
    /\ UNCHANGED cmdVars

\* A worker that breaks the message contract.
WorkerSendMalformed ==
    /\ worker = "running"
    /\ Len(pipe) < MaxPipe
    /\ \E msg \in MalformedMsgs :
          /\ pipe' = Append(pipe, msg)
          /\ worker' = IF HasStatus(msg) /\ msg.status \in Terminal
                         THEN "exited" ELSE worker
    /\ lastOp' = [NoOp EXCEPT !.op = "worker_send_malformed"]
    /\ UNCHANGED <<par, slider, text, stopReq, timers, joined>>
    /\ UNCHANGED cmdVars

\* Stop button -> fit_worker.terminate: asks the worker to stop.
StopClicked ==
    /\ stopReq' = (stopReq \/ worker = "running")
    /\ lastOp' = [NoOp EXCEPT !.op = "stop_clicked"]
    /\ UNCHANGED <<par, slider, text, worker, pipe, timers, joined>>
    /\ UNCHANGED cmdVars

(* --------------------------- MainWindow.fit_monitor --------------------- *)

\* Mutant of Drain: recv() hands out the newest message first.
RECURSIVE DrainNewestFirst(_, _)
DrainNewestFirst(p, recv) ==
    IF p = <<>>
      THEN [recv |-> recv, rest |-> p, stopped |-> FALSE, raised |-> ""]
      ELSE LET msg   == p[Len(p)]
               front == SubSeq(p, 1, Len(p) - 1)
           IN  IF ~HasStatus(msg)
                 THEN [recv |-> Append(recv, msg), rest |-> front,
                       stopped |-> FALSE, raised |-> "KeyError"]
                 ELSE IF msg.status \in Terminal
                   THEN [recv |-> Append(recv, msg), rest |-> front,
                         stopped |-> TRUE, raised |-> ""]
                   ELSE DrainNewestFirst(front, Append(recv, msg))

\* The while loop of fit_monitor: recv() until poll() is false or a message
\* with a terminal status was received.  msg['status'] raises KeyError on a
\* message without that field.
RECURSIVE Drain(_, _)
Drain(p, recv) ==
    IF p = <<>>
      THEN [recv |-> recv, rest |-> p, stopped |-> FALSE, raised |-> ""]
      ELSE LET msg == Head(p)
           IN  IF ~HasStatus(msg)
                 THEN [recv |-> Append(recv, msg), rest |-> Tail(p),
                       stopped |-> FALSE, raised |-> "KeyError"]
                 ELSE IF msg.status \in Terminal
                   THEN [recv |-> Append(recv, msg), rest |-> Tail(p),
                         stopped |-> TRUE, raised |-> ""]
                   ELSE Drain(Tail(p), Append(recv, msg))

\* Mutant of JoinsOn: the worker is never joined.
JoinsNever(fit_stopped) == FALSE

\* fit_worker.fit_process.join() is called in the loop, on the terminal message.
JoinsOn(fit_stopped) == fit_stopped

\* "if not fit_stopped: QtCore.QTimer.singleShot(200, self.fit_monitor)"
ReArms(fit_stopped) == ~fit_stopped

\* The setter of model.parvals: every par.val in the order of model.pars;
\* a vector of another length is refused and no val is written.
ParvalsRaises(pv) == Len(pv) # NPars

SetParvals(ps, pv) ==
    [i \in Pars |-> IF i <= Len(pv) THEN [ps[i] EXCEPT !.val = pv[i]] ELSE ps[i]]

\* ParamsPanel.update: str(val_label.text) is the text of a bound method, never
\* the formatted value, so every row's slider is set from par.val.
PanelUpdate(ss, ps) == [i \in Pars |-> set_step_from_value(ss[i], ps[i].val)]

\* ParamsPanel.update, the text fields: every row's val field is set.
PanelUpdateText(ts, ps) == [i \in Pars |-> [ts[i] EXCEPT !.val = ps[i].val]]

\* Mutant of ApplyRaises: the values are written one by one from the vector,
\* whatever its length.
ApplyRaisesKeyOnly(msg) == IF ~HasParvals(msg) THEN "KeyError" ELSE ""

\* The exception, if any, that ends the "if msg:" block before the update.
ApplyRaises(msg) ==
    IF ~HasParvals(msg) THEN "KeyError"
    ELSE IF ParvalsRaises(msg.parvals) THEN "ValueError"
    ELSE ""

\* Mutant of Monitor: the parvals of the first message received are applied.
MonitorAppliesFirst(p) ==
    LET d     == Drain(p, <<>>)
        got   == d.recv # <<>>
        msg   == d.recv[1]
        exc   == IF d.raised # "" THEN d.raised
                 ELSE IF got THEN ApplyRaises(msg)
                 ELSE ""
        apply == got /\ exc = ""
    IN  [recv    |-> d.recv,
         rest    |-> d.rest,
         applied |-> IF apply THEN <<msg.parvals>> ELSE <<>>,
         joined  |-> JoinsOn(d.stopped),
         armed   |-> exc = "" /\ ReArms(d.stopped),
         raised  |-> exc]

\* Mutant of Monitor: the timer is armed inside the "if msg:" block, so a call
\* that received nothing arms none.
MonitorArmsIfMsg(p) ==
    LET d     == Drain(p, <<>>)
        got   == d.recv # <<>>
        msg   == d.recv[Len(d.recv)]
        exc   == IF d.raised # "" THEN d.raised
                 ELSE IF got THEN ApplyRaises(msg)
                 ELSE ""
        apply == got /\ exc = ""
    IN  [recv    |-> d.recv,
         rest    |-> d.rest,
         applied |-> IF apply THEN <<msg.parvals>> ELSE <<>>,
         joined  |-> JoinsOn(d.stopped),
         armed   |-> apply /\ ReArms(d.stopped),
         raised  |-> exc]

\* One call of fit_monitor on the pipe p: what it received, what is left, what
\* it applied, whether it joined the worker and armed a timer, and the
\* exception that ended it (if any).
Monitor(p) ==
    LET d     == Drain(p, <<>>)
        got   == d.recv # <<>>
        msg   == d.recv[Len(d.recv)]
        exc   == IF d.raised # "" THEN d.raised
                 ELSE IF got THEN ApplyRaises(msg)
                 ELSE ""
        apply == got /\ exc = ""
    IN  [recv    |-> d.recv,
         rest    |-> d.rest,
         applied |-> IF apply THEN <<msg.parvals>> ELSE <<>>,
         joined  |-> JoinsOn(d.stopped),
         armed   |-> exc = "" /\ ReArms(d.stopped),
         raised  |-> exc]

\* The effect of one call of fit_monitor on the state; `fired` is 1 when the
\* call is the firing of a timer and `launched` tells whether the caller has
\* just launched the worker.
fit_monitor(by, fired, launched) ==
    LET m == Monitor(pipe)
    IN  /\ pipe' = m.rest
        /\ joined' = (joined \/ m.joined)
        /\ par' = IF m.applied # <<>> THEN SetParvals(par, m.applied[1]) ELSE par
        /\ slider' = IF m.applied # <<>>
                       THEN PanelUpdate(slider, SetParvals(par, m.applied[1]))
                       ELSE slider
        /\ text' = IF m.applied # <<>>
                     THEN PanelUpdateText(text, SetParvals(par, m.applied[1]))
                     ELSE text
        /\ timers' = timers - fired + (IF m.armed THEN 1 ELSE 0)
        /\ lastOp' = [NoOp EXCEPT !.op = by, !.recv = m.recv,
                                  !.applied = m.applied, !.joined = m.joined,
                                  !.armed = m.armed, !.raised = m.raised,
                                  !.launched = launched]
        /\ UNCHANGED cmdVars

\* The 200 ms timer fires.
TimerTick ==
    /\ timers > 0
    /\ fit_monitor("timer", 1, FALSE)
    /\ UNCHANGED <<worker, stopReq>>

\* Fit button: clicked is connected to fit_worker.start and to fit_monitor,
\* two slots called one after the other.
FitClicked ==
    /\ timers < MaxTimers
    /\ worker' = IF CanLaunch THEN "running" ELSE worker
    /\ fit_monitor("fit_button", 0, CanLaunch)
    /\ UNCHANGED stopReq

\* The console's fit(): self.fit_worker.start(); self.fit_monitor().  A start
\* that fails raises, and fit_monitor is then not called.
ConsoleFit ==
    /\ timers < MaxTimers
    /\ IF CanLaunch
         THEN /\ worker' = "running"
              /\ fit_monitor("console_fit", 0, TRUE)
              /\ UNCHANGED stopReq
         ELSE /\ lastOp' = [NoOp EXCEPT !.op = "console_fit",
                                        !.raised = "AlreadyRunning"]
              /\ UNCHANGED <<par, slider, text, worker, stopReq, pipe, timers, joined>>
              /\ UNCHANGED cmdVars

(* -------------------- PanelCheckBox.frozen_toggled ---------------------- *)

\* Mutant of frozen_toggled: the test is the wrong way round.
FrozenToggledInverted(state) == state = "Checked"

\* frozen_toggled(state): par.frozen = state != QtCore.Qt.Checked
frozen_toggled(state) == state # "Checked"

\* The state Qt passes to stateChanged for a check box that is checked or not.
CheckState(on) == IF on THEN "Checked" ELSE "Unchecked"

\* Mutant of CheckBoxToggled: the handler also empties the mask.
CheckBoxToggledEmptiesMask ==
    \E i \in Pars :
        /\ checked' = [checked EXCEPT ![i] = ~checked[i]]
        /\ frozen' = [frozen EXCEPT ![i] = frozen_toggled(CheckState(~checked[i]))]
        /\ mask' = <<>>
        /\ lastOp' = [NoOp EXCEPT !.op = "frozen_toggled", !.i = i]
        /\ UNCHANGED <<par, slider, text>>
        /\ UNCHANGED fitVars

\* The user clicks the check box of row i.
CheckBoxToggled ==
    \E i \in Pars :
        /\ checked' = [checked EXCEPT ![i] = ~checked[i]]
        /\ frozen' = [frozen EXCEPT ![i] = frozen_toggled(CheckState(~checked[i]))]
        /\ lastOp' = [NoOp EXCEPT !.op = "frozen_toggled", !.i = i]
        /\ UNCHANGED <<par, slider, text, mask>>
        /\ UNCHANGED fitVars

(* ----------------------- MainWindow.parse_command ----------------------- *)

\* A command line is held as vals, the sequence of its tokens (command.split()),
\* and a token as the sequence of its characters.
KwFreeze == <<"f", "r", "e", "e", "z", "e">>

KwThaw == <<"t", "h", "a", "w">>

KwIgnore == <<"i", "g", "n", "o", "r", "e">>

KwNotice == <<"n", "o", "t", "i", "c", "e">>

Keywords == {KwFreeze, KwThaw, KwIgnore, KwNotice}

\* fnmatch.translate(pat): the regular expression of a glob, as the sequence of
\* its atoms.  "*" becomes ".*", "?" becomes ".", any other character of the
\* patterns used here is escaped and stands for itself; the expression ends
\* with \Z.
RxAtom(c) ==
    IF c = "*" THEN [k |-> "star", c |-> ""]
    ELSE IF c = "?" THEN [k |-> "any", c |-> ""]
    ELSE [k |-> "lit", c |-> c]

RxEnd == [k |-> "end", c |-> ""]

\* Mutant of translate: the expression is not anchored at the end.
TranslateNoEnd(pat) == [j \in 1..Len(pat) |-> RxAtom(pat[j])]

translate(pat) == Append([j \in 1..Len(pat) |-> RxAtom(pat[j])], RxEnd)

\* re.match(rx, s): the expression matches at the beginning of s.
RECURSIVE re_match(_, _)
re_match(rx, s) ==
    IF rx = <<>> THEN TRUE
    ELSE LET a == Head(rx)
         IN  CASE a.k = "end"  -> s = <<>> /\ re_match(Tail(rx), s)
               [] a.k = "star" -> \/ re_match(Tail(rx), s)
                                  \/ s # <<>> /\ re_match(rx, Tail(s))
               [] a.k = "any"  -> s # <<>> /\ re_match(Tail(rx), Tail(s))
               [] a.k = "lit"  -> /\ s # <<>>
                                  /\ Head(s) = a.c
                                  /\ re_match(Tail(rx), Tail(s))

\* The two loops of freeze / thaw: parameter i is matched by one of vals[1:].
ParMatched(vals, i) ==
    \E j \in 2..Len(vals) : re_match(translate(vals[j]), ParNames[i])

\* str.split(sep)
RECURSIVE split(_, _)
split(s, sep) ==
    IF \A j \in 1..Len(s) : s[j] # sep
      THEN <<s>>
      ELSE LET k == CHOOSE j \in 1..Len(s) :
                        s[j] = sep /\ \A h \in 1..(j - 1) : s[h] # sep
           IN  <<SubSeq(s, 1, k - 1)>> \o split(SubSeq(s, k + 1, Len(s)), sep)

Star == <<"*">>

\* Chandra.Time.DateTime: a date is read in the form YYYY:DDD, with or without
\* the time of day 00:00:00.000 after it; its instant is held as the number
\* YYYY * 1000 + DDD, which also stands for its canonical form (.date).
Digits == <<"0", "1", "2", "3", "4", "5", "6", "7", "8", "9">>

IsDigit(c) == \E d \in 1..Len(Digits) : Digits[d] = c

DigitVal(c) == (CHOOSE d \in 1..Len(Digits) : Digits[d] = c) - 1

Midnight == <<":", "0", "0", ":", "0", "0", ":", "0", "0", ".", "0", "0", "0">>

DayOfYear(s) == DigitVal(s[6]) * 100 + DigitVal(s[7]) * 10 + DigitVal(s[8])

Year(s) ==
    DigitVal(s[1]) * 1000 + DigitVal(s[2]) * 100 + DigitVal(s[3]) * 10
        + DigitVal(s[4])

\* DateTime(s) raises ChandraTimeError.
DateRaises(s) ==
    ~ /\ Len(s) >= 8
      /\ \A j \in {1, 2, 3, 4, 6, 7, 8} : IsDigit(s[j])
      /\ s[5] = ":"
      /\ DayOfYear(s) \in 1..366
      /\ Len(s) > 8 => SubSeq(s, 9, Len(s)) = Midnight

DateInstant(s) == Year(s) * 1000 + DayOfYear(s)

\* model.datestart and model.datestop, in the canonical form
datestart == <<"2", "0", "2", "0", ":", "0", "0", "1">> \o Midnight

datestop == <<"2", "0", "2", "0", ":", "0", "2", "0">> \o Midnight

\* Mutant of ResolveLim: the two model dates are taken the wrong way round.
ResolveLimSwapped(lim) ==
    LET l0 == IF lim[1] = Star THEN [lim EXCEPT ![1] = datestop] ELSE lim
    IN  IF l0[2] = Star THEN [l0 EXCEPT ![2] = datestart] ELSE l0

\* The ignore branch up to DateTime(lim): the two "*" replaced.
ResolveLim(lim) ==
    LET l0 == IF lim[1] = Star THEN [lim EXCEPT ![1] = datestart] ELSE lim
    IN  IF l0[2] = Star THEN [l0 EXCEPT ![2] = datestop] ELSE l0

\* The exception, if any, raised in the try block of the ignore branch:
\* lim[1] of a one-element list, or DateTime of a list with a bad date.
IgnoreRaises(arg) ==
    LET lim == split(arg, "-")
    IN  IF Len(lim) < 2 THEN "IndexError"
        ELSE IF \E j \in 1..Len(lim) : DateRaises(ResolveLim(lim)[j])
               THEN "ChandraTimeError"
        ELSE ""

\* lim = DateTime(lim).date
IgnoreLim(arg) ==
    LET lim == ResolveLim(split(arg, "-"))
    IN  [j \in 1..Len(lim) |-> DateInstant(lim[j])]

\* model.append_mask_times(lim): one interval more, from lim[0] to lim[1].
append_mask_times(m, lim) == Append(m, [start |-> lim[1], stop |-> lim[2]])

\* model.reset_mask_times(): no interval is left.
reset_mask_times(m) == <<>>

\* Mutant of IgnoreAccepted: the return of the except clause is reached on
\* every path.
IgnoreAlwaysReturns(vals) == FALSE

\* The ignore command reaches append_mask_times: no exception was caught.
IgnoreAccepted(vals) == IgnoreRaises(vals[2]) = ""

\* Mutant of NoticeAccepted: arguments of notice are not looked at.
NoticeAnyArgs(vals) == TRUE

\* The notice command reaches reset_mask_times: "if len(vals) > 1: ... return"
NoticeAccepted(vals) == ~(Len(vals) > 1)

\* The first check of parse_command.
BadCommand(vals) ==
    \/ vals[1] \notin Keywords
    \/ vals[1] # KwNotice /\ Len(vals) < 2

\* parse_command(command), vals being command.split(); reached from the command
\* entry (command_activated, which drops an empty line) and from the console's
\* freeze, thaw, ignore and notice.
parse_command(vals) ==
    LET cmd      == vals[1]
        done     == [NoOp EXCEPT !.op = "command", !.vals = vals]
        rejected == [done EXCEPT !.rejected = TRUE]
    IN  /\ IF BadCommand(vals)
             THEN /\ lastOp' = rejected
                  /\ UNCHANGED cmdVars
           ELSE IF cmd \in {KwFreeze, KwThaw}
             THEN /\ checked' = [i \in Pars |->
                                    IF ParMatched(vals, i)
                                      THEN cmd = KwThaw ELSE checked[i]]
                  /\ frozen' = [i \in Pars |->
                                   IF ParMatched(vals, i)
                                     THEN cmd # KwThaw ELSE frozen[i]]
                  /\ lastOp' = done
                  /\ UNCHANGED mask
           ELSE IF cmd = KwIgnore
             THEN IF IgnoreAccepted(vals)
                    THEN /\ Len(mask) < MaxMask
                         /\ mask' = append_mask_times(mask, IgnoreLim(vals[2]))
                         /\ lastOp' = [done EXCEPT !.redraw = TRUE]
                         /\ UNCHANGED <<frozen, checked>>
                    ELSE /\ lastOp' = rejected
                         /\ UNCHANGED cmdVars
           ELSE IF NoticeAccepted(vals)
             THEN /\ mask' = reset_mask_times(mask)
                  /\ lastOp' = [done EXCEPT !.redraw = TRUE]
                  /\ UNCHANGED <<frozen, checked>>
           ELSE /\ lastOp' = rejected
                /\ UNCHANGED cmdVars
        /\ UNCHANGED <<par, slider, text>>
        /\ UNCHANGED fitVars

\* The command lines tried.
Patterns ==
    { <<"f", "o", "o", "*">>,
      <<"*", ".", "b", "a", "r">>,
      <<"q", "u", "x", ".", "b", "a", "r">>,
      <<"?", "u", "x", "?", "b", "a", "r">>,
      <<"f", "o", "o">>,
      <<"b", "a", "r">>,
      <<"*">> }

Bogus == <<"b", "o", "g", "u", "s">>

D001 == <<"2", "0", "2", "0", ":", "0", "0", "1">>

D010 == <<"2", "0", "2", "0", ":", "0", "1", "0">>

D400 == <<"2", "0", "2", "0", ":", "4", "0", "0">>

Dash == <<"-">>

GoodRanges ==
    { Star \o Dash \o D010,
      D010 \o Dash \o Star,
      Star \o Dash \o Star,
      D001 \o Dash \o D010 \o Midnight }

BadRanges ==
    { D010, Star, Star \o Dash, D001 \o Dash \o Bogus, Bogus \o Dash \o D010,
      D001 \o Dash \o D400 }

CmdLines ==
    {<<kw>> : kw \in Keywords \cup {Bogus}}
    \cup {<<kw, p>> : kw \in {KwFreeze, KwThaw}, p \in Patterns}
    \cup {<<kw, <<"f", "o", "o">>, p>> :
              kw \in {KwFreeze, KwThaw},
              p \in {<<"b", "a", "r">>, <<"q", "u", "x", ".", "b", "a", "r">>}}
    \cup {<<kw, <<"*">>>> : kw \in {KwNotice, Bogus}}
    \cup {<<KwIgnore, r>> : r \in GoodRanges \cup BadRanges}
    \cup {<<KwIgnore, r, Bogus>> : r \in {Star \o Dash \o D010, D010}}

Command == \E vals \in CmdLines : parse_command(vals)

(* --------------------------- the specification -------------------------- *)

Init ==
    /\ par = [i \in Pars |-> InitPar]
    /\ slider = [i \in Pars |-> NewSlider(InitPar)]
    /\ worker = "idle"
    /\ stopReq = FALSE
    /\ pipe = <<>>
    /\ timers = 0
    /\ joined = FALSE
    /\ frozen = [i \in Pars |-> FALSE]
    /\ checked = [i \in Pars |-> ~FALSE]
    /\ mask = <<>>
    /\ text = [i \in Pars |-> InitPar]
    /\ lastOp = NoOp

TextEdit == \E i \in EditRows : \E v \in ValInputs : set_par_attr(i, "val", v, v)

BoundEdit ==
    \E i \in EditRows : \E attr \in {"min", "max"} : \E v \in BoundInputs :
        set_par_attr(i, attr, v, v)

\* A console assignment params[name].val = v, .min = v or .max = v (PanelParam):
\* set_par_attr is called on the field, whose text nobody has set.
ScriptEdit ==
    \E i \in EditRows : \E attr \in Attrs : \E v \in BoundInputs :
        set_par_attr(i, attr, v, text[i][attr])

SliderDrag ==
    \E i \in EditRows : \E step \in StepInputs : slider_moved(i, step)

Next ==
    \/ TextEdit
    \/ BoundEdit
    \/ SliderDrag
    \/ FitClicked
    \/ ConsoleFit
    \/ StopClicked
    \/ TimerTick
    \/ WorkerSend
    \/ WorkerExit

Spec == Init /\ [][Next]_vars

\* The fit session with a worker that may break the message contract, the
\* user leaving the parameter table alone.
NextFaulty ==
    \/ FitClicked
    \/ ConsoleFit
    \/ StopClicked
    \/ TimerTick
    \/ WorkerSend
    \/ WorkerExit
    \/ WorkerSendMalformed

SpecFaulty == Init /\ [][NextFaulty]_vars

\* The fit session alone: worker messages, ticks, fit triggers and Stop clicks,
\* the worker keeping the message contract.
NextFit ==
    \/ FitClicked
    \/ ConsoleFit
    \/ StopClicked
    \/ TimerTick
    \/ WorkerSend
    \/ WorkerExit

SpecFit == Init /\ [][NextFit]_vars

\* A session that is started once: the Fit button or the console's fit() is
\* used while no worker has been launched, and never again.
FitOnce == worker = "idle" /\ FitClicked

ConsoleFitOnce == worker = "idle" /\ ConsoleFit

\* The session started once, its worker keeping the message contract; the
\* event loop fires an outstanding timer in the end (weak fairness of the tick).
NextOnce ==
    \/ FitOnce
    \/ ConsoleFitOnce
    \/ StopClicked
    \/ TimerTick
    \/ WorkerSend
    \/ WorkerExit

SpecOnce == Init /\ [][NextOnce]_vars /\ WF_vars(TimerTick)

\* The same with a worker that may break the message contract before it sends
\* its terminal message.
NextOnceFaulty ==
    \/ FitOnce
    \/ ConsoleFitOnce
    \/ StopClicked
    \/ TimerTick
    \/ WorkerSend
    \/ WorkerExit
    \/ WorkerSendMalformed

SpecOnceFaulty == Init /\ [][NextOnceFaulty]_vars /\ WF_vars(TimerTick)

\* The command line and the check boxes, the fit and the numbers left alone.
NextCmd ==
    \/ Command
    \/ CheckBoxToggled

SpecCmd == Init /\ [][NextCmd]_vars

\* The parameter table, written from its text fields, from the console and by
\* its sliders, no fit running.
NextTable ==
    \/ TextEdit
    \/ BoundEdit
    \/ ScriptEdit
    \/ SliderDrag

SpecTable == Init /\ [][NextTable]_vars

\* The mapping of one slider, value by value.  The table is loaded with a
\* parameter of any bounds min < max of the grid, and any number of the finer
\* grid, up to Margin outside the bounds, is set on the slider and read back.
SliderBounds == {k * SliderMax : k \in -1..MaxUnits}

Margin == 150

InitSlider ==
    /\ \E lo, hi \in SliderBounds :
          /\ lo < hi
          /\ par = [i \in Pars |-> [val |-> lo, min |-> lo, max |-> hi]]
          /\ slider = [i \in Pars |-> NewSlider([val |-> lo, min |-> lo, max |-> hi])]
          /\ text = [i \in Pars |-> [val |-> lo, min |-> lo, max |-> hi]]
    /\ worker = "idle"
    /\ stopReq = FALSE
    /\ pipe = <<>>
    /\ timers = 0
    /\ joined = FALSE
    /\ frozen = [i \in Pars |-> FALSE]
    /\ checked = [i \in Pars |-> ~FALSE]
    /\ mask = <<>>
    /\ lastOp = NoOp

\* set_step_from_value(v), then get_value_from_step(), on the slider of row 1.
RoundTrip ==
    \E v \in (par[1].min - Margin)..(par[1].max + Margin) :
        LET s == set_step_from_value(slider[1], v)
        IN  /\ slider' = [slider EXCEPT ![1] = s]
            /\ lastOp' = [NoOp EXCEPT !.op = "round_trip", !.i = 1, !.v = v,
                                      !.back = get_value_from_step(s)]
            /\ UNCHANGED <<par, text, frozen, checked, mask>>
            /\ UNCHANGED fitVars

NextSlider == RoundTrip

SpecSlider == InitSlider /\ [][NextSlider]_vars

(* ======================= the parameter store ============================ *)

\* The last handler wrote the field attr of a parameter through set_par_attr.
Wrote(attrs) == lastOp.op = "set_par_attr" /\ lastOp.attr \in attrs

\* The parameter the last handler wrote.
Written == par[lastOp.i]

\* v bounded to [lo, hi], as a clamp is commonly defined (lo <= hi).
Clamp(v, lo, hi) == IF v < lo THEN lo ELSE IF v > hi THEN hi ELSE v

\* C1 as stated: after a value write, min <= val <= max, whatever was written.
\* It fails for a parameter whose bounds are crossed (min > max).
C1_ValWithinBoundsAfterWrite ==
    Wrote({"val"}) => Written.min <= Written.val /\ Written.val <= Written.max

\* C1 amended: after a value write, val <= max always; min <= val whenever
\* min <= max, val then being the written number clamped to [min, max]; and
\* a parameter with min > max ends with val = max.
C1_ValueWriteClamped ==
    Wrote({"val"}) =>
        /\ Written.val <= Written.max
        /\ Written.min <= Written.max =>
               Written.val = Clamp(lastOp.v, Written.min, Written.max)
        /\ Written.min > Written.max => Written.val = Written.max

\* C1 witness: a value above max was written and the stored val is max.
C1_Witness ==
    /\ Wrote({"val"})
    /\ Written.min < Written.max
    /\ lastOp.v > Written.max
    /\ Written.val = Written.max

\* C2: min <= val <= max in every reachable state.  Stated for the
\* parameters whose bounds are in order (min < max): it fails for them too,
\* through a fit result received after the bounds were narrowed.
C2_ValWithinBoundsAlways ==
    \A i \in Pars :
        par[i].min < par[i].max =>
            par[i].min <= par[i].val /\ par[i].val <= par[i].max

\* C3 as stated: a value write of a number below min ends with val = min
\* (if / else-if), also when min > max.
C3_MinClampWins ==
    (Wrote({"val"}) /\ lastOp.v < Written.min) => Written.val = Written.min

\* C3 amended: the min check comes first and the max check is then applied
\* to its result (two ifs): a value write of a number below min ends with
\* val = min when min <= max, and with val = max when min > max.
C3_MinCheckThenMaxCheck ==
    (Wrote({"val"}) /\ lastOp.v < Written.min) =>
        Written.val = IF Written.min > Written.max
                        THEN Written.max ELSE Written.min

\* C3 witness: bounds crossed, a number below min written, val = max.
C3_Witness ==
    /\ Wrote({"val"})
    /\ lastOp.v < Written.min
    /\ Written.min > Written.max
    /\ Written.val = Written.max

\* C4 as stated: a write of min or max leaves val as it was.
C4_BoundEditKeepsVal ==
    Wrote({"min", "max"}) => Written.val = lastOp.old

\* C4 amended: a write of min or max leaves val as it was when val lies
\* within the new [min, max]; otherwise val is clamped as by a value write:
\* to the new bound it violates, and to max when the new bounds are crossed.
C4_BoundEditReclampsVal ==
    Wrote({"min", "max"}) =>
        Written.val = IF Written.min > Written.max
                        THEN Written.max
                        ELSE Clamp(lastOp.old, Written.min, Written.max)

\* C4 witness: min was raised above val, bounds in order, and val moved to min.
C4_Witness ==
    /\ Wrote({"min"})
    /\ Written.min < Written.max
    /\ lastOp.old < Written.min
    /\ Written.val = Written.min

(* ========================= the fit session ============================== *)

\* The last handler called fit_monitor: a timer fired, the Fit button was
\* clicked, or the console's fit() got past fit_worker.start().
Monitored ==
    /\ lastOp.op \in {"timer", "fit_button", "console_fit"}
    /\ lastOp.raised # "AlreadyRunning"

\* The last message that call received.
LastRecv == lastOp.recv[Len(lastOp.recv)]

IsTerminal(msg) == HasStatus(msg) /\ msg.status \in Terminal

WellFormed(msg) ==
    /\ HasStatus(msg)
    /\ HasParvals(msg)
    /\ Len(msg.parvals) = NPars

RecvTerminal == lastOp.recv # <<>> /\ IsTerminal(LastRecv)

\* C5: one call of fit_monitor receives until the pipe is empty or a terminal
\* status is received; it writes to the model the parvals of the last message
\* it received, once, and nothing of the earlier ones; it arms a timer unless
\* the last status is terminal.
C5_LastMessageApplied ==
    Monitored =>
        /\ \A k \in 1..(Len(lastOp.recv) - 1) : ~IsTerminal(lastOp.recv[k])
        /\ RecvTerminal \/ pipe = <<>>
        /\ lastOp.recv = <<>> => lastOp.applied = <<>>
        /\ lastOp.recv # <<>> =>
               /\ lastOp.applied = <<LastRecv.parvals>>
               /\ \A i \in Pars : par[i].val = LastRecv.parvals[i]
        /\ lastOp.armed = ~RecvTerminal

\* C5 witness: a call received a progress message and then a terminal one with
\* other parvals, and the model holds the parvals of the terminal one.
C5_Witness ==
    /\ Monitored
    /\ Len(lastOp.recv) >= 2
    /\ RecvTerminal
    /\ lastOp.recv[1].parvals # LastRecv.parvals
    /\ lastOp.applied = <<LastRecv.parvals>>
    /\ \A i \in Pars : par[i].val = LastRecv.parvals[i]
    /\ ~lastOp.armed

\* C6: at most one monitor timer is outstanding.
C6_OneTimerOutstanding == timers <= 1

\* C7: a start action issued while the worker is running launches nothing and
\* starts no second monitoring loop (arms no timer of its own).
C7_StartWhileRunningRejected ==
    ( /\ lastOp.op \in {"fit_button", "console_fit"}
      /\ ~lastOp.launched
      /\ worker = "running" )
    => ~lastOp.armed

\* C8: a call of fit_monitor that receives a terminal message joins the worker
\* process, which has exited, and arms no timer.
C8_TerminalTickJoins ==
    (Monitored /\ RecvTerminal) =>
        /\ lastOp.joined
        /\ joined
        /\ worker = "exited"
        /\ ~lastOp.armed

\* C8 witness: a timer tick received a terminal message, the worker is
\* joined and no timer is outstanding.
C8_Witness ==
    /\ lastOp.op = "timer"
    /\ RecvTerminal
    /\ joined
    /\ timers = 0

\* C9: a Stop click changes neither the timers nor the pipe nor the join, and
\* the number of outstanding timers goes down only by a tick that received a
\* terminal message: every other tick re-arms its timer.
C9_StopAloneKeepsMonitoring ==
    [][ /\ lastOp'.op = "stop_clicked" =>
               timers' = timers /\ pipe' = pipe /\ joined' = joined
        /\ timers' < timers =>
               /\ lastOp'.op = "timer"
               /\ lastOp'.recv # <<>>
               /\ IsTerminal(lastOp'.recv[Len(lastOp'.recv)]) ]_vars

\* C9 witness: Stop was clicked, the worker has not yet sent its terminal
\* message, and a tick has re-armed the timer.
C9_Witness ==
    /\ lastOp.op = "timer"
    /\ stopReq
    /\ worker = "running"
    /\ lastOp.armed
    /\ timers > 0

\* C10: a call of fit_monitor whose last received message is malformed changes
\* no parameter value and re-arms the timer.
C10_MalformedTickRetries ==
    (Monitored /\ lastOp.recv # <<>> /\ ~WellFormed(LastRecv)) =>
        /\ lastOp.applied = <<>>
        /\ lastOp.armed

(* ===================== ingesting a fit vector =========================== *)

\* C11: a call of fit_monitor whose last received message carries a vector of
\* another length than the number of parameters fails (ValueError), changes no
\* parameter and no slider; one whose vector has that length makes every val
\* the entry of the vector at the parameter's place, in that one step, and
\* leaves the bounds alone.
C11_FitVectorIngestion ==
    [][ LET m    == lastOp'
            last == m.recv[Len(m.recv)]
        IN  ( /\ m.op \in {"fit_button", "console_fit", "timer"}
              /\ m.raised # "AlreadyRunning"
              /\ m.recv # <<>>
              /\ HasStatus(last)
              /\ HasParvals(last) )
            => IF Len(last.parvals) # NPars
                 THEN /\ m.raised = "ValueError"
                      /\ m.applied = <<>>
                      /\ par' = par
                      /\ slider' = slider
                 ELSE /\ m.raised = ""
                      /\ \A i \in Pars :
                            /\ par'[i].val = last.parvals[i]
                            /\ par'[i].min = par[i].min
                            /\ par'[i].max = par[i].max ]_vars

\* C11 witness: a call received a vector that is too short, failed and wrote
\* nothing, the model holding other values than the vector's.
C11_Witness ==
    /\ Monitored
    /\ lastOp.recv # <<>>
    /\ HasStatus(LastRecv) /\ HasParvals(LastRecv)
    /\ Len(LastRecv.parvals) < NPars
    /\ lastOp.raised = "ValueError"
    /\ lastOp.applied = <<>>
    /\ par[1].val # LastRecv.parvals[1]

(* ===================== after the terminal message ======================= *)

\* C12: once a call of fit_monitor has received a terminal message (the worker
\* is joined), no Fit click, console fit() or Stop click puts the session back
\* into running or starts monitoring again: such a handler launches nothing and
\* arms no timer, and the worker stays exited.
C12_TerminalAbsorbing ==
    (joined /\ lastOp.op \in {"fit_button", "console_fit", "stop_clicked"}) =>
        /\ ~lastOp.launched
        /\ ~lastOp.armed
        /\ worker = "exited"

(* ========================= the command line ============================= *)

\* The last handler was parse_command, and the words of its line.
Commanded(m) == m.op = "command"

\* pat matches name as a shell glob, the whole of name: "*" stands for any
\* run of characters, "?" for one character, any other character for itself.
RECURSIVE GlobMatch(_, _)
GlobMatch(pat, name) ==
    IF pat = <<>> THEN name = <<>>
    ELSE IF Head(pat) = "*"
      THEN \E k \in 0..Len(name) :
               GlobMatch(Tail(pat), SubSeq(name, k + 1, Len(name)))
    ELSE /\ name # <<>>
         /\ Head(pat) = "?" \/ Head(pat) = Head(name)
         /\ GlobMatch(Tail(pat), Tail(name))

\* C13: a freeze (thaw) command with one or more patterns leaves frozen = TRUE
\* (FALSE) on every parameter whose full name matches one of the patterns as a
\* whole-string glob, and leaves the flag of every other parameter as it was.
C13_FreezeThawByGlob ==
    [][ LET m == lastOp'
        IN  ( /\ Commanded(m)
              /\ Len(m.vals) >= 2
              /\ m.vals[1] \in {KwFreeze, KwThaw} )
            => \A i \in Pars :
                   IF \E j \in 2..Len(m.vals) : GlobMatch(m.vals[j], ParNames[i])
                     THEN frozen'[i] = (m.vals[1] = KwFreeze)
                     ELSE frozen'[i] = frozen[i] ]_vars

\* C13 witness: 'freeze foo*' has frozen foo.bar and left qux.bar thawed.
C13_Witness ==
    /\ Commanded(lastOp)
    /\ lastOp.vals = <<KwFreeze, <<"f", "o", "o", "*">>>>
    /\ frozen[1]
    /\ ~frozen[2]

\* The lines C14 is about: an unknown first word; freeze, thaw or ignore and
\* nothing more; notice and something more.
C14_Case(vals) ==
    \/ vals[1] \notin Keywords
    \/ vals[1] \in {KwFreeze, KwThaw, KwIgnore} /\ Len(vals) = 1
    \/ vals[1] = KwNotice /\ Len(vals) > 1

\* C14: such a line is refused and changes nothing: no parameter's frozen, val,
\* min or max, no check box, not the mask, and no redraw is asked for.
C14_BadCommandNoMutation ==
    [][ (Commanded(lastOp') /\ C14_Case(lastOp'.vals))
        => /\ lastOp'.rejected
           /\ ~lastOp'.redraw
           /\ par' = par
           /\ frozen' = frozen
           /\ checked' = checked
           /\ mask' = mask ]_vars

\* C14 witness: 'notice *' was refused with a mask interval and a frozen
\* parameter in place.
C14_Witness ==
    /\ Commanded(lastOp)
    /\ lastOp.vals = <<KwNotice, <<"*">>>>
    /\ lastOp.rejected
    /\ mask # <<>>
    /\ \E i \in Pars : frozen[i]

\* arg has a "-", and the sides of the first one.
HasDash(arg) == \E j \in 1..Len(arg) : arg[j] = "-"

DashAt(arg) == CHOOSE j \in 1..Len(arg) : arg[j] = "-" /\ \A h \in 1..(j - 1) : arg[h] # "-"

LeftSide(arg) == SubSeq(arg, 1, DashAt(arg) - 1)

RightSide(arg) == SubSeq(arg, DashAt(arg) + 1, Len(arg))

\* A side of a range: "*" or a date.
GoodSide(side) == side = Star \/ ~DateRaises(side)

\* A well-formed range: start-stop, each side "*" or a date.
GoodRange(arg) ==
    HasDash(arg) /\ GoodSide(LeftSide(arg)) /\ GoodSide(RightSide(arg))

\* C15: 'ignore <arg>' with a malformed arg (no "-", or a side that is no
\* date) is refused, leaves the mask as it was and asks for no redraw; with a
\* well-formed arg it appends one interval to the mask and asks for one redraw.
C15_IgnoreRange ==
    [][ LET m == lastOp'
        IN  (Commanded(m) /\ Len(m.vals) = 2 /\ m.vals[1] = KwIgnore)
            => IF GoodRange(m.vals[2])
                 THEN /\ ~m.rejected
                      /\ Len(mask') = Len(mask) + 1
                      /\ SubSeq(mask', 1, Len(mask)) = mask
                      /\ m.redraw
                 ELSE /\ m.rejected
                      /\ mask' = mask
                      /\ ~m.redraw ]_vars

\* C15 witness: an ignore with an unparseable right side was refused, the
\* mask holding the interval of an earlier, well-formed ignore.
C15_Witness ==
    /\ Commanded(lastOp)
    /\ lastOp.vals = <<KwIgnore, D001 \o Dash \o Bogus>>
    /\ lastOp.rejected
    /\ Len(mask) = 1

\* The instant a side of a range stands for.
SideInstant(side, star) == DateInstant(IF side = Star THEN star ELSE side)

InGrammar(vals) ==
    \/ vals[1] \in {KwFreeze, KwThaw} /\ Len(vals) >= 2
    \/ vals[1] = KwIgnore /\ Len(vals) = 2 /\ GoodRange(vals[2])
    \/ vals = <<KwNotice>>

\* C17: a line that is not of the grammar is refused and changes neither the
\* mask nor a frozen flag; in particular 'ignore A-B extra'.
C17_OnlyGrammarAccepted ==
    [][ (Commanded(lastOp') /\ ~InGrammar(lastOp'.vals))
        => /\ lastOp'.rejected
           /\ mask' = mask
           /\ frozen' = frozen ]_vars

(* ======================== the slider mapping ============================ *)

\* C18: an edit of min or max that makes max = min is refused as a whole:
\* the parameter (min, max, val) and the slider (parmin, parmax, parval, dx,
\* position) are as before the edit.
C18_DegenerateEditRejected ==
    [][ LET m == lastOp'
        IN  ( /\ m.op = "set_par_attr"
              /\ \/ m.attr = "min" /\ m.v = par[m.i].max
                 \/ m.attr = "max" /\ m.v = par[m.i].min )
            => par' = par /\ slider' = slider ]_vars

\* C19: for a slider with parmin < parmax and its mapping fresh, and a value v
\* with parmin <= v <= parmax, set_step_from_value(v) followed by
\* get_value_from_step() gives a value within (parmax - parmin) / 100 of v, and
\* the position is in [0, 100].
C19_RoundTripWithinQuantum ==
    LET s == slider[lastOp.i]
    IN  ( /\ lastOp.op = "round_trip"
          /\ s.parmin < s.parmax
          /\ s.dxden = s.parmax - s.parmin
          /\ s.parmin <= lastOp.v /\ lastOp.v <= s.parmax )
        => /\ SliderMin <= s.step /\ s.step <= SliderMax
           /\ Abs(lastOp.back - lastOp.v) * SliderMax <= s.parmax - s.parmin

\* C19 witness: a value strictly between two positions was set and the value
\* read back is another one.
C19_Witness ==
    /\ lastOp.op = "round_trip"
    /\ slider[1].parmin < lastOp.v /\ lastOp.v < slider[1].parmax
    /\ slider[1].step \notin {SliderMin, SliderMax}
    /\ lastOp.back # lastOp.v

\* a / b rounded to the nearest integer, halves upward (b > 0).
RoundDiv(a, b) == (2 * a + b) \div (2 * b)

\* The position the stored val, min and max of p call for.
ExpectedStep(p) ==
    Clamp(RoundDiv((p.val - p.min) * SliderMax, p.max - p.min),
          SliderMin, SliderMax)

\* C20: after a write of val, min or max through the table or the console, and
\* after a fit vector was written to the model, the slider of every parameter
\* with min < max stands at round((val - min) * 100 / (max - min)) bounded to
\* [0, 100], computed from the val, min and max now stored.
C20_SliderFollowsStore ==
    (Wrote(Attrs) \/ (Monitored /\ lastOp.applied # <<>>)) =>
        \A i \in Pars :
            par[i].min < par[i].max => slider[i].step = ExpectedStep(par[i])

(* ========================= the text fields ============================== *)

\* C21: after a write of val, min or max that did not fail, the field of what
\* was written and the val field of that row show the stored numbers; after a
\* slider drag the val field of the row shows the stored val; after a fit
\* vector was written to the model every val field shows the stored val.
C21_TextShowsStored ==
    /\ (Wrote(Attrs) /\ lastOp.raised = "") =>
           /\ text[lastOp.i][lastOp.attr] = Written[lastOp.attr]
           /\ text[lastOp.i].val = Written.val
    /\ lastOp.op = "slider_moved" => text[lastOp.i].val = Written.val
    /\ (Monitored /\ lastOp.applied # <<>>) =>
           \A i \in Pars : text[i].val = par[i].val

(* ========================= the frozen flags ============================= *)

\* C22: a click on a fit check box, and a freeze or thaw command, whether or
\* not it changes a frozen flag, leaves val, min and max of every parameter and
\* the mask as they were.
C22_FrozenChangeKeepsNumbers ==
    [][ LET m == lastOp'
        IN  ( \/ m.op = "frozen_toggled"
              \/ Commanded(m) /\ ~m.rejected /\ m.vals[1] \in {KwFreeze, KwThaw}
              \/ frozen' # frozen )
            => par' = par /\ mask' = mask ]_vars

\* C22 witness: a check box was clicked, its parameter is frozen, and the
\* mask holds an interval.
C22_Witness ==
    /\ lastOp.op = "frozen_toggled"
    /\ frozen[lastOp.i]
    /\ mask # <<>>
    /\ par[lastOp.i] = InitPar

(* ==================== the slider's cached mapping ======================= *)

\* C23: in every reachable state the cached mapping of every slider is fresh:
\* parmin and parmax are the parameter's min and max and dx is
\* 100 / (parmax - parmin), so that a drag writes
\* val = position * (max - min) / 100 + min.
C23_SliderMappingFresh ==
    \A i \in Pars :
        /\ slider[i].parmin = par[i].min
        /\ slider[i].parmax = par[i].max
        /\ slider[i].dxden = par[i].max - par[i].min
        /\ (lastOp.op = "slider_moved" /\ lastOp.i = i) =>
               par[i].val * SliderMax =
                   lastOp.v * (par[i].max - par[i].min) + par[i].min * SliderMax

(* ===================== the order of the fit vectors ===================== *)

TerminalSent == \E k \in 1..Len(pipe) : IsTerminal(pipe[k]) /\ WellFormed(pipe[k])

\* Monitoring has stopped on a terminal message: no timer is outstanding, the
\* worker is joined and the model holds the parvals of that message.
SessionEnded ==
    /\ Monitored
    /\ RecvTerminal
    /\ WellFormed(LastRecv)
    /\ timers = 0
    /\ joined
    /\ \A i \in Pars : par[i].val = LastRecv.parvals[i]

\* C25: in a session started once, with timers that fire in the end, a
\* well-formed terminal message on the pipe leads to the end of monitoring, the
\* worker joined and the model holding the parvals of that message.
C25_TerminalMessageEndsSession == TerminalSent ~> SessionEnded

(* ========================= the fit check boxes ========================== *)

\* C26: in every state reached by check box clicks and commands, the fit
\* check box of each parameter is checked exactly when the parameter is not
\* frozen.
C26_CheckedIffThawed == \A i \in Pars : checked[i] = ~frozen[i]

\* C26 witness: a freeze command has frozen a parameter whose box a click had
\* checked or left checked, and its box is unchecked; another parameter is
\* thawed, its box checked.
C26_Witness ==
    /\ Commanded(lastOp)
    /\ lastOp.vals[1] = KwFreeze
    /\ \E i, j \in Pars :
          /\ frozen[i] /\ ~checked[i]
          /\ ~frozen[j] /\ checked[j]

====
